---- MODULE Spec2Model ----
(***************************************************************************)
(* Model of keystore2/src/key_parameter.rs: the KeyParameterValue tagged   *)
(* union and its conversions to and from the KeyMint wire record           *)
(* (KmKeyParameter), the SQLite cell (to_sql / new_from_sql) and the       *)
(* Primitive interchange value (new_from_tag_primitive_pair).              *)
(*                                                                         *)
(* Data encoding.  Every Rust datum is a record [ty, d]: ty is the Rust    *)
(* type name and d the machine words of the datum as a tuple of integers:  *)
(*   ()        <<>>            bool   <<0>> or <<1>>                        *)
(*   i32       <<n>>           i64    <<hi, lo>>, the value hi * 2^31 + lo *)
(*   Vec<u8>   the bytes       AIDL enum T(i32)   <<n>>                    *)
(* A 64-bit integer is kept as two limbs because TLC evaluates integers   *)
(* in 32 bits; the value fits an i32 exactly when hi is 0 or -1.           *)
(***************************************************************************)
EXTENDS Integers, Sequences, FiniteSets, TLC

VARIABLES input, tag, value, prim, cell, wire, result, ops,
          param, level, auth, payload, ptype, shared, calls

\* The KeyParameter at hand, the SecurityLevel at hand, the Authorization made.
kpvars == <<param, level, auth>>

\* A payload datum and its type, for the primitive erasure layer.
erasurevars == <<payload, ptype>>

\* A KeyParameter shared by reference between threads, and their calls.
concvars == <<shared, calls>>

vars == <<input, tag, value, prim, cell, wire, result, ops,
          param, level, auth, payload, ptype, shared, calls>>

(***************************************************************************)
(* Bounds of the exploration.                                              *)
(***************************************************************************)
\* Longest chain of operations applied to one input.
MaxOps == 3

\* Longest byte blob drawn as an input.
MaxBlobLen == 2

(***************************************************************************)
(* Machine integers.                                                       *)
(***************************************************************************)
I32Max == 2147483647

I32Min == (-2147483647) - 1

Unit == [ty |-> "()", d |-> <<>>]

I32(n) == [ty |-> "i32", d |-> <<n>>]

I64(hi, lo) == [ty |-> "i64", d |-> <<hi, lo>>]

Bool(b) == [ty |-> "bool", d |-> <<IF b THEN 1 ELSE 0>>]

VecU8(bytes) == [ty |-> "Vec<u8>", d |-> bytes]

\* i64::from(i32): sign extension into the two limbs.
I64FromI32(x) ==
    IF x.d[1] >= 0 THEN I64(0, x.d[1])
    ELSE I64(-1, (x.d[1] + I32Max) + 1)

\* Does the 64-bit integer lie in i32::MIN ..= i32::MAX ?
FitsI32(x) == x.d[1] \in {0, -1}

\* The i32 with the same numeric value as an i64 for which FitsI32 holds.
I32FromI64(x) ==
    IF x.d[1] = 0 THEN I32(x.d[2])
    ELSE I32((x.d[2] - I32Max) - 1)

(***************************************************************************)
(* The AIDL enum types: tuple structs wrapping an i32.                     *)
(***************************************************************************)
AidlEnumTypes ==
    {"Algorithm", "BlockMode", "Digest", "EcCurve", "HardwareAuthenticatorType",
     "KeyOrigin", "KeyPurpose", "PaddingMode", "SecurityLevel"}

IdentityTypes == {"Vec<u8>", "i64", "i32"}

\* AssociatePrimitive::Primitive, the primitive type associated with a payload type.
AssociatedPrimitive(vtype) ==
    IF vtype \in AidlEnumTypes THEN "i32" ELSE vtype

\* Faulty variant: an AIDL enum is built through a range check that maps a
\* negative primitive, which names no enumerator, to the enumerator 0.
from_primitive_RangeChecked(vtype, v) ==
    IF vtype \in AidlEnumTypes
    THEN [ty |-> vtype, d |-> <<IF v.d[1] < 0 THEN 0 ELSE v.d[1]>>]
    ELSE v

\* AssociatePrimitive::from_primitive: Self(v) for an AIDL enum, v itself otherwise.
from_primitive(vtype, v) ==
    IF vtype \in AidlEnumTypes THEN [ty |-> vtype, d |-> <<v.d[1]>>]
    ELSE v

\* AssociatePrimitive::to_primitive: self.0 for an AIDL enum, a clone otherwise.
to_primitive(x) ==
    IF x.ty \in AidlEnumTypes THEN I32(x.d[1])
    ELSE x

(***************************************************************************)
(* Primitive and PrimitiveError.                                           *)
(***************************************************************************)
PrimitiveCases == {"I64", "I32", "Vec"}

\* Faulty variant: From<i32> widens and files the value under I64.
PrimitiveFrom_I32AsI64(v) ==
    CASE v.ty = "i64" -> [case |-> "I64", v |-> v]
      [] v.ty = "i32" -> [case |-> "I64", v |-> I64FromI32(v)]
      [] v.ty = "Vec<u8>" -> [case |-> "Vec", v |-> v]

\* From<i64>, From<i32>, From<Vec<u8>> for Primitive.
PrimitiveFrom(v) ==
    CASE v.ty = "i64" -> [case |-> "I64", v |-> v]
      [] v.ty = "i32" -> [case |-> "I32", v |-> v]
      [] v.ty = "Vec<u8>" -> [case |-> "Vec", v |-> v]

TypeMismatch == [code |-> "TypeMismatch", context |-> <<>>]

UnknownTag == [code |-> "UnknownTag", context |-> <<>>]

NoError == [code |-> "", context |-> <<>>]

\* Result<T, E>: val is meaningful only when ok, err only when not ok.
Ok(x) == [ok |-> TRUE, val |-> x, err |-> NoError]

Err(e, none) == [ok |-> FALSE, val |-> none, err |-> e]

\* Faulty variant: an I32 primitive is widened where an i64 is expected.
TryFromPrimitive_Widening(ty, p) ==
    CASE ty = "i64" -> IF p.case = "I64" THEN Ok(p.v)
                       ELSE IF p.case = "I32" THEN Ok(I64FromI32(p.v))
                       ELSE Err(TypeMismatch, Unit)
      [] ty = "i32" -> IF p.case = "I32" THEN Ok(p.v) ELSE Err(TypeMismatch, Unit)
      [] ty = "Vec<u8>" -> IF p.case = "Vec" THEN Ok(p.v) ELSE Err(TypeMismatch, Unit)

\* Faulty variant: the projection into Vec<u8> lost its Primitive::Vec arm.
TryFromPrimitive_NoVecArm(ty, p) ==
    CASE ty = "i64" -> IF p.case = "I64" THEN Ok(p.v) ELSE Err(TypeMismatch, Unit)
      [] ty = "i32" -> IF p.case = "I32" THEN Ok(p.v) ELSE Err(TypeMismatch, Unit)
      [] ty = "Vec<u8>" -> Err(TypeMismatch, Unit)

\* TryFrom<Primitive> for i64, i32 and Vec<u8>: only the matching case converts.
TryFromPrimitive(ty, p) ==
    CASE ty = "i64" -> IF p.case = "I64" THEN Ok(p.v) ELSE Err(TypeMismatch, Unit)
      [] ty = "i32" -> IF p.case = "I32" THEN Ok(p.v) ELSE Err(TypeMismatch, Unit)
      [] ty = "Vec<u8>" -> IF p.case = "Vec" THEN Ok(p.v) ELSE Err(TypeMismatch, Unit)

(***************************************************************************)
(* The key parameter list: one row per KeyParameterValue variant, in       *)
(* source order.  vtype "()" marks a variant that wraps no value.          *)
(***************************************************************************)
Table == <<
    [vname |-> "Invalid", vtype |-> "()", tag |-> "INVALID", field |-> "Invalid"],
    [vname |-> "KeyPurpose", vtype |-> "KeyPurpose", tag |-> "PURPOSE", field |-> "KeyPurpose"],
    [vname |-> "Algorithm", vtype |-> "Algorithm", tag |-> "ALGORITHM", field |-> "Algorithm"],
    [vname |-> "KeySize", vtype |-> "i32", tag |-> "KEY_SIZE", field |-> "Integer"],
    [vname |-> "BlockMode", vtype |-> "BlockMode", tag |-> "BLOCK_MODE", field |-> "BlockMode"],
    [vname |-> "Digest", vtype |-> "Digest", tag |-> "DIGEST", field |-> "Digest"],
    [vname |-> "RsaOaepMgfDigest", vtype |-> "Digest", tag |-> "RSA_OAEP_MGF_DIGEST", field |-> "Digest"],
    [vname |-> "PaddingMode", vtype |-> "PaddingMode", tag |-> "PADDING", field |-> "PaddingMode"],
    [vname |-> "CallerNonce", vtype |-> "()", tag |-> "CALLER_NONCE", field |-> "BoolValue"],
    [vname |-> "MinMacLength", vtype |-> "i32", tag |-> "MIN_MAC_LENGTH", field |-> "Integer"],
    [vname |-> "EcCurve", vtype |-> "EcCurve", tag |-> "EC_CURVE", field |-> "EcCurve"],
    [vname |-> "RSAPublicExponent", vtype |-> "i64", tag |-> "RSA_PUBLIC_EXPONENT", field |-> "LongInteger"],
    [vname |-> "IncludeUniqueID", vtype |-> "()", tag |-> "INCLUDE_UNIQUE_ID", field |-> "BoolValue"],
    [vname |-> "BootLoaderOnly", vtype |-> "()", tag |-> "BOOTLOADER_ONLY", field |-> "BoolValue"],
    [vname |-> "RollbackResistance", vtype |-> "()", tag |-> "ROLLBACK_RESISTANCE", field |-> "BoolValue"],
    [vname |-> "EarlyBootOnly", vtype |-> "()", tag |-> "EARLY_BOOT_ONLY", field |-> "BoolValue"],
    [vname |-> "ActiveDateTime", vtype |-> "i64", tag |-> "ACTIVE_DATETIME", field |-> "DateTime"],
    [vname |-> "OriginationExpireDateTime", vtype |-> "i64", tag |-> "ORIGINATION_EXPIRE_DATETIME", field |-> "DateTime"],
    [vname |-> "UsageExpireDateTime", vtype |-> "i64", tag |-> "USAGE_EXPIRE_DATETIME", field |-> "DateTime"],
    [vname |-> "MinSecondsBetweenOps", vtype |-> "i32", tag |-> "MIN_SECONDS_BETWEEN_OPS", field |-> "Integer"],
    [vname |-> "MaxUsesPerBoot", vtype |-> "i32", tag |-> "MAX_USES_PER_BOOT", field |-> "Integer"],
    [vname |-> "UsageCountLimit", vtype |-> "i32", tag |-> "USAGE_COUNT_LIMIT", field |-> "Integer"],
    [vname |-> "UserID", vtype |-> "i32", tag |-> "USER_ID", field |-> "Integer"],
    [vname |-> "UserSecureID", vtype |-> "i64", tag |-> "USER_SECURE_ID", field |-> "LongInteger"],
    [vname |-> "NoAuthRequired", vtype |-> "()", tag |-> "NO_AUTH_REQUIRED", field |-> "BoolValue"],
    [vname |-> "HardwareAuthenticatorType", vtype |-> "HardwareAuthenticatorType", tag |-> "USER_AUTH_TYPE", field |-> "HardwareAuthenticatorType"],
    [vname |-> "AuthTimeout", vtype |-> "i32", tag |-> "AUTH_TIMEOUT", field |-> "Integer"],
    [vname |-> "AllowWhileOnBody", vtype |-> "()", tag |-> "ALLOW_WHILE_ON_BODY", field |-> "BoolValue"],
    [vname |-> "TrustedUserPresenceRequired", vtype |-> "()", tag |-> "TRUSTED_USER_PRESENCE_REQUIRED", field |-> "BoolValue"],
    [vname |-> "TrustedConfirmationRequired", vtype |-> "()", tag |-> "TRUSTED_CONFIRMATION_REQUIRED", field |-> "BoolValue"],
    [vname |-> "UnlockedDeviceRequired", vtype |-> "()", tag |-> "UNLOCKED_DEVICE_REQUIRED", field |-> "BoolValue"],
    [vname |-> "ApplicationID", vtype |-> "Vec<u8>", tag |-> "APPLICATION_ID", field |-> "Blob"],
    [vname |-> "ApplicationData", vtype |-> "Vec<u8>", tag |-> "APPLICATION_DATA", field |-> "Blob"],
    [vname |-> "CreationDateTime", vtype |-> "i64", tag |-> "CREATION_DATETIME", field |-> "DateTime"],
    [vname |-> "KeyOrigin", vtype |-> "KeyOrigin", tag |-> "ORIGIN", field |-> "Origin"],
    [vname |-> "RootOfTrust", vtype |-> "Vec<u8>", tag |-> "ROOT_OF_TRUST", field |-> "Blob"],
    [vname |-> "OSVersion", vtype |-> "i32", tag |-> "OS_VERSION", field |-> "Integer"],
    [vname |-> "OSPatchLevel", vtype |-> "i32", tag |-> "OS_PATCHLEVEL", field |-> "Integer"],
    [vname |-> "UniqueID", vtype |-> "Vec<u8>", tag |-> "UNIQUE_ID", field |-> "Blob"],
    [vname |-> "AttestationChallenge", vtype |-> "Vec<u8>", tag |-> "ATTESTATION_CHALLENGE", field |-> "Blob"],
    [vname |-> "AttestationApplicationID", vtype |-> "Vec<u8>", tag |-> "ATTESTATION_APPLICATION_ID", field |-> "Blob"],
    [vname |-> "AttestationIdBrand", vtype |-> "Vec<u8>", tag |-> "ATTESTATION_ID_BRAND", field |-> "Blob"],
    [vname |-> "AttestationIdDevice", vtype |-> "Vec<u8>", tag |-> "ATTESTATION_ID_DEVICE", field |-> "Blob"],
    [vname |-> "AttestationIdProduct", vtype |-> "Vec<u8>", tag |-> "ATTESTATION_ID_PRODUCT", field |-> "Blob"],
    [vname |-> "AttestationIdSerial", vtype |-> "Vec<u8>", tag |-> "ATTESTATION_ID_SERIAL", field |-> "Blob"],
    [vname |-> "AttestationIdIMEI", vtype |-> "Vec<u8>", tag |-> "ATTESTATION_ID_IMEI", field |-> "Blob"],
    [vname |-> "AttestationIdSecondIMEI", vtype |-> "Vec<u8>", tag |-> "ATTESTATION_ID_SECOND_IMEI", field |-> "Blob"],
    [vname |-> "AttestationIdMEID", vtype |-> "Vec<u8>", tag |-> "ATTESTATION_ID_MEID", field |-> "Blob"],
    [vname |-> "AttestationIdManufacturer", vtype |-> "Vec<u8>", tag |-> "ATTESTATION_ID_MANUFACTURER", field |-> "Blob"],
    [vname |-> "AttestationIdModel", vtype |-> "Vec<u8>", tag |-> "ATTESTATION_ID_MODEL", field |-> "Blob"],
    [vname |-> "VendorPatchLevel", vtype |-> "i32", tag |-> "VENDOR_PATCHLEVEL", field |-> "Integer"],
    [vname |-> "BootPatchLevel", vtype |-> "i32", tag |-> "BOOT_PATCHLEVEL", field |-> "Integer"],
    [vname |-> "AssociatedData", vtype |-> "Vec<u8>", tag |-> "ASSOCIATED_DATA", field |-> "Blob"],
    [vname |-> "Nonce", vtype |-> "Vec<u8>", tag |-> "NONCE", field |-> "Blob"],
    [vname |-> "MacLength", vtype |-> "i32", tag |-> "MAC_LENGTH", field |-> "Integer"],
    [vname |-> "ResetSinceIdRotation", vtype |-> "()", tag |-> "RESET_SINCE_ID_ROTATION", field |-> "BoolValue"],
    [vname |-> "ConfirmationToken", vtype |-> "Vec<u8>", tag |-> "CONFIRMATION_TOKEN", field |-> "Blob"],
    [vname |-> "CertificateSerial", vtype |-> "Vec<u8>", tag |-> "CERTIFICATE_SERIAL", field |-> "Blob"],
    [vname |-> "CertificateSubject", vtype |-> "Vec<u8>", tag |-> "CERTIFICATE_SUBJECT", field |-> "Blob"],
    [vname |-> "CertificateNotBefore", vtype |-> "i64", tag |-> "CERTIFICATE_NOT_BEFORE", field |-> "DateTime"],
    [vname |-> "CertificateNotAfter", vtype |-> "i64", tag |-> "CERTIFICATE_NOT_AFTER", field |-> "DateTime"],
    [vname |-> "MaxBootLevel", vtype |-> "i32", tag |-> "MAX_BOOT_LEVEL", field |-> "Integer"]
>>

Rows == {Table[i] : i \in 1..Len(Table)}

TableTags == {r.tag : r \in Rows}

VariantNames == {r.vname : r \in Rows}

\* Tags of keymint::Tag that the list does not mention; they reach the wildcard arms.
UnknownTags == {"HARDWARE_TYPE", "STORAGE_KEY"}

Tags == TableTags \cup UnknownTags

\* The first row of the list with the given tag (match arms are tried in order).
RowOfTag(t) == Table[CHOOSE i \in 1..Len(Table) :
                        /\ Table[i].tag = t
                        /\ \A j \in 1..(i - 1) : Table[j].tag # t]

\* The row that declares the given variant.
RowOfVariant(n) == Table[CHOOSE i \in 1..Len(Table) :
                        /\ Table[i].vname = n
                        /\ \A j \in 1..(i - 1) : Table[j].vname # n]

HasPayload(r) == r.vtype # "()"

\* KeyParameterValue::$vname(v) and KeyParameterValue::$vname.
Variant(n, v) == [vname |-> n, v |-> v]

Invalid == Variant("Invalid", Unit)

\* Placeholder held where a Result carries no KeyParameterValue.
NoValue == Variant("", Unit)

(***************************************************************************)
(* KeyParameterValue operations generated from the list.                   *)
(***************************************************************************)
\* Faulty variant: the arm of RsaOaepMgfDigest was copied from Digest and
\* kept its tag.
get_tag_CopiedArm(x) ==
    IF x.vname = "RsaOaepMgfDigest" THEN "DIGEST"
    ELSE RowOfVariant(x.vname).tag

\* implement_get_tag: the tag of the row that declares the variant.
get_tag(x) == RowOfVariant(x.vname).tag

\* Faulty variant: a variant without payload asks for the I32 primitive that
\* its wire field would wrap.
new_from_tag_primitive_pair_ChecksFlags(t, v) ==
    LET p == PrimitiveFrom(v) IN
    IF t \notin TableTags THEN Err(UnknownTag, NoValue)
    ELSE LET r == RowOfTag(t) IN
         IF ~HasPayload(r)
         THEN IF p.case = "I32" THEN Ok(Variant(r.vname, Unit))
              ELSE Err(TypeMismatch, NoValue)
         ELSE LET c == TryFromPrimitive(AssociatedPrimitive(r.vtype), p) IN
              IF c.ok THEN Ok(Variant(r.vname, from_primitive(r.vtype, c.val)))
              ELSE Err(c.err, NoValue)

\* Faulty variant: the wildcard arm degrades to Invalid as new_from_sql does.
new_from_tag_primitive_pair_Lenient(t, v) ==
    LET p == PrimitiveFrom(v) IN
    IF t \notin TableTags THEN Ok(Invalid)
    ELSE LET r == RowOfTag(t) IN
         IF ~HasPayload(r) THEN Ok(Variant(r.vname, Unit))
         ELSE LET c == TryFromPrimitive(AssociatedPrimitive(r.vtype), p) IN
              IF c.ok THEN Ok(Variant(r.vname, from_primitive(r.vtype, c.val)))
              ELSE Err(c.err, NoValue)

\* implement_from_tag_primitive_pair.  v is the argument of type T: Into<Primitive>.
new_from_tag_primitive_pair(t, v) ==
    LET p == PrimitiveFrom(v) IN
    IF t \notin TableTags THEN Err(UnknownTag, NoValue)
    ELSE LET r == RowOfTag(t) IN
         IF ~HasPayload(r) THEN Ok(Variant(r.vname, Unit))
         ELSE LET c == TryFromPrimitive(AssociatedPrimitive(r.vtype), p) IN
              IF c.ok THEN Ok(Variant(r.vname, from_primitive(r.vtype, c.val)))
              ELSE Err(c.err, NoValue)

(***************************************************************************)
(* SQLite cells.  A cell is [kind, v]; an Integer cell holds an i64.       *)
(***************************************************************************)
Null == [kind |-> "Null", v |-> Unit]

\* Faulty variant: an i32 is zero-extended (as u32) instead of sign-extended.
ToSqlOutputFrom_ZeroExtend(v) ==
    CASE v.ty = "i32" -> [kind |-> "Integer",
                          v |-> IF v.d[1] >= 0 THEN I64(0, v.d[1])
                                ELSE I64(1, (v.d[1] + I32Max) + 1)]
      [] v.ty = "i64" -> [kind |-> "Integer", v |-> v]
      [] v.ty = "Vec<u8>" -> [kind |-> "Blob", v |-> v]

\* ToSqlOutput::from for the three primitive types.
ToSqlOutputFrom(v) ==
    CASE v.ty = "i32" -> [kind |-> "Integer", v |-> I64FromI32(v)]
      [] v.ty = "i64" -> [kind |-> "Integer", v |-> v]
      [] v.ty = "Vec<u8>" -> [kind |-> "Blob", v |-> v]

\* Faulty variant: a variant without payload stores its implicit true as 1.
to_sql_FlagStoresOne(x) ==
    LET r == RowOfVariant(x.vname) IN
    IF HasPayload(r) THEN Ok(ToSqlOutputFrom(to_primitive(x.v)))
    ELSE Ok(ToSqlOutputFrom(I32(1)))

\* implement_to_sql: NULL for a variant without payload, the primitive otherwise.
to_sql(x) ==
    LET r == RowOfVariant(x.vname) IN
    IF HasPayload(r) THEN Ok(ToSqlOutputFrom(to_primitive(x.v)))
    ELSE Ok(Null)

SqlError == [code |-> "rusqlite::Error", context |-> <<>>]

\* SqlField::get::<T>(): the typed read of a cell, which fails on a cell of
\* another kind and on an integer outside the range of T.
SqlFieldGet(ty, c) ==
    CASE ty = "i32" -> IF c.kind = "Integer" /\ FitsI32(c.v)
                       THEN Ok(I32FromI64(c.v)) ELSE Err(SqlError, Unit)
      [] ty = "i64" -> IF c.kind = "Integer" THEN Ok(c.v) ELSE Err(SqlError, Unit)
      [] ty = "Vec<u8>" -> IF c.kind = "Blob" THEN Ok(c.v) ELSE Err(SqlError, Unit)

\* KeystoreError::Rc(ResponseCode::VALUE_CORRUPTED) with the context string
\* concat!("Failed to read sql data for tag: ", stringify!($tag_name), ".").
ValueCorrupted(t) ==
    [code |-> "VALUE_CORRUPTED",
     context |-> <<"Failed to read sql data for tag: ", t, ".">>]

\* Faulty variant: the cell is read with data.get().unwrap(), so a cell that
\* cannot be decoded aborts the thread instead of returning an error.
new_from_sql_Unwrap(t, data) ==
    IF t \notin TableTags THEN Ok(Invalid)
    ELSE LET r == RowOfTag(t) IN
         IF ~HasPayload(r) THEN Ok(Variant(r.vname, Unit))
         ELSE LET g == SqlFieldGet(AssociatedPrimitive(r.vtype), data) IN
              IF g.ok THEN Ok(Variant(r.vname, from_primitive(r.vtype, g.val)))
              ELSE Err([code |-> "panic", context |-> <<>>], NoValue)

\* Faulty variant: a variant without payload is read only from a NULL cell.
new_from_sql_ReadsFlagCell(t, data) ==
    IF t \notin TableTags THEN Ok(Invalid)
    ELSE LET r == RowOfTag(t) IN
         IF ~HasPayload(r)
         THEN IF data = Null THEN Ok(Variant(r.vname, Unit))
              ELSE Err(ValueCorrupted(r.tag), NoValue)
         ELSE LET g == SqlFieldGet(AssociatedPrimitive(r.vtype), data) IN
              IF g.ok THEN Ok(Variant(r.vname, from_primitive(r.vtype, g.val)))
              ELSE Err(ValueCorrupted(r.tag), NoValue)

\* Faulty variant: a cell that cannot be decoded degrades to Invalid.
new_from_sql_Lenient(t, data) ==
    IF t \notin TableTags THEN Ok(Invalid)
    ELSE LET r == RowOfTag(t) IN
         IF ~HasPayload(r) THEN Ok(Variant(r.vname, Unit))
         ELSE LET g == SqlFieldGet(AssociatedPrimitive(r.vtype), data) IN
              IF g.ok THEN Ok(Variant(r.vname, from_primitive(r.vtype, g.val)))
              ELSE Ok(Invalid)

\* implement_new_from_sql.
new_from_sql(t, data) ==
    IF t \notin TableTags THEN Ok(Invalid)
    ELSE LET r == RowOfTag(t) IN
         IF ~HasPayload(r) THEN Ok(Variant(r.vname, Unit))
         ELSE LET g == SqlFieldGet(AssociatedPrimitive(r.vtype), data) IN
              IF g.ok THEN Ok(Variant(r.vname, from_primitive(r.vtype, g.val)))
              ELSE Err(ValueCorrupted(r.tag), NoValue)

(***************************************************************************)
(* The KeyMint wire record KmKeyParameter {tag, value}, value being one    *)
(* field of the union KmKeyParameterValue.                                 *)
(***************************************************************************)
KmFields ==
    {"Invalid", "Algorithm", "BlockMode", "PaddingMode", "Digest", "EcCurve",
     "Origin", "KeyPurpose", "HardwareAuthenticatorType", "SecurityLevel",
     "BoolValue", "Integer", "LongInteger", "DateTime", "Blob"}

\* The type each union field wraps.
KmFieldType(f) ==
    CASE f \in {"Invalid", "Integer"} -> "i32"
      [] f \in {"LongInteger", "DateTime"} -> "i64"
      [] f = "BoolValue" -> "bool"
      [] f = "Blob" -> "Vec<u8>"
      [] f = "Origin" -> "KeyOrigin"
      [] OTHER -> f

KmKeyParameterValue(f, v) == [field |-> f, v |-> v]

KmKeyParameter(t, kv) == [tag |-> t, value |-> kv]

\* Faulty variant: the defaults of std::default::Default, false for bool.
KpDefault_StdDefault(ty) ==
    CASE ty = "i32" -> I32(0)
      [] ty = "bool" -> Bool(FALSE)

\* KpDefault::default(): 0 for i32, true for bool.
KpDefault(ty) ==
    CASE ty = "i32" -> I32(0)
      [] ty = "bool" -> Bool(TRUE)

\* Rows whose (tag, field) pattern matches the record.
MatchingArms(kp) ==
    {i \in 1..Len(Table) : Table[i].tag = kp.tag /\ Table[i].field = kp.value.field}

\* Faulty variant: a flag record whose BoolValue is false counts as absent.
from_km_FalseIsAbsent(kp) ==
    IF MatchingArms(kp) = {} THEN Invalid
    ELSE LET r == Table[CHOOSE i \in MatchingArms(kp) :
                            \A j \in MatchingArms(kp) : i <= j] IN
         IF HasPayload(r) THEN Variant(r.vname, kp.value.v)
         ELSE IF kp.value.v = Bool(FALSE) THEN Invalid
         ELSE Variant(r.vname, Unit)

\* Faulty variant: the arms match on the tag alone and take whatever field
\* the record carries.
from_km_TagOnly(kp) ==
    IF kp.tag \notin TableTags THEN Invalid
    ELSE LET r == RowOfTag(kp.tag) IN
         IF HasPayload(r) THEN Variant(r.vname, kp.value.v)
         ELSE Variant(r.vname, Unit)

\* Faulty variant: the rule for variants without payload is missing, so
\* their records fall through to the wildcard arm.
from_km_NoFlagRule(kp) ==
    IF MatchingArms(kp) = {} THEN Invalid
    ELSE LET r == Table[CHOOSE i \in MatchingArms(kp) :
                            \A j \in MatchingArms(kp) : i <= j] IN
         IF HasPayload(r) THEN Variant(r.vname, kp.value.v)
         ELSE Invalid

\* From<KmKeyParameter> for KeyParameterValue: the first matching arm, else Invalid.
from_km(kp) ==
    IF MatchingArms(kp) = {} THEN Invalid
    ELSE LET r == Table[CHOOSE i \in MatchingArms(kp) :
                            \A j \in MatchingArms(kp) : i <= j] IN
         IF HasPayload(r) THEN Variant(r.vname, kp.value.v)
         ELSE Variant(r.vname, Unit)

\* Faulty variant: the DateTime payloads are sent in the LongInteger field.
into_km_DateTimeAsLongInteger(x) ==
    LET r == RowOfVariant(x.vname)
        f == IF r.field = "DateTime" THEN "LongInteger" ELSE r.field IN
    IF HasPayload(r) THEN KmKeyParameter(r.tag, KmKeyParameterValue(f, x.v))
    ELSE KmKeyParameter(r.tag, KmKeyParameterValue(f, KpDefault(KmFieldType(f))))

\* Faulty variant: the rule for variants without payload sends Tag::INVALID.
into_km_DefaultsTaggedInvalid(x) ==
    LET r == RowOfVariant(x.vname) IN
    IF HasPayload(r) THEN KmKeyParameter(r.tag, KmKeyParameterValue(r.field, x.v))
    ELSE KmKeyParameter("INVALID",
                        KmKeyParameterValue(r.field, KpDefault(KmFieldType(r.field))))

\* From<KeyParameterValue> for KmKeyParameter.
into_km(x) ==
    LET r == RowOfVariant(x.vname) IN
    IF HasPayload(r) THEN KmKeyParameter(r.tag, KmKeyParameterValue(r.field, x.v))
    ELSE KmKeyParameter(r.tag, KmKeyParameterValue(r.field, KpDefault(KmFieldType(r.field))))

(***************************************************************************)
(* Inputs.                                                                 *)
(***************************************************************************)
I32Samples == {I32(I32Min), I32(-1), I32(0), I32(2048), I32(I32Max)}

\* The i32 samples widened, 2^31 and -2^31 - 1 (just outside i32), and 2^40.
I64Samples ==
    {I64FromI32(x) : x \in I32Samples} \cup {I64(1, 0), I64(-2, I32Max), I64(512, 0)}

ByteSamples == {1, 2}

RECURSIVE BlobsOfLen(_)
BlobsOfLen(n) ==
    IF n = 0 THEN {<<>>}
    ELSE {Append(b, x) : b \in BlobsOfLen(n - 1), x \in ByteSamples}

BlobSamples == UNION {{VecU8(b) : b \in BlobsOfLen(n)} : n \in 0..MaxBlobLen}

\* The values of a Rust type that inputs are drawn from.
DataOfType(ty) ==
    CASE ty = "()" -> {Unit}
      [] ty = "bool" -> {Bool(TRUE), Bool(FALSE)}
      [] ty = "i32" -> I32Samples
      [] ty = "i64" -> I64Samples
      [] ty = "Vec<u8>" -> BlobSamples
      [] OTHER -> {from_primitive(ty, x) : x \in I32Samples}

KeyParameterValues ==
    UNION {{Variant(r.vname, v) : v \in DataOfType(r.vtype)} : r \in Rows}

KmKeyParameterValues ==
    UNION {{KmKeyParameterValue(f, v) : v \in DataOfType(KmFieldType(f))} : f \in KmFields}

KmKeyParameters ==
    {KmKeyParameter(t, kv) : t \in Tags, kv \in KmKeyParameterValues}

\* Arguments of new_from_tag_primitive_pair: an i32, an i64 or a Vec<u8>.
PrimitiveArgs == I32Samples \cup I64Samples \cup BlobSamples

SqlCells ==
    {Null}
    \cup {[kind |-> "Integer", v |-> x] : x \in I64Samples}
    \cup {[kind |-> "Blob", v |-> x] : x \in BlobSamples}
    \cup {[kind |-> "Text", v |-> VecU8(<<1>>)]}

NoTag == ""

NoData == [ty |-> "", d |-> <<>>]

NoCell == [kind |-> "", v |-> Unit]

NoKm == KmKeyParameter(NoTag, KmKeyParameterValue("", Unit))

NoResult == [ok |-> FALSE, val |-> NoValue, err |-> NoError]

\* KeyParameter { value, security_level }.
KeyParameter(v, l) == [value |-> v, security_level |-> l]

NoParam == KeyParameter(NoValue, NoData)

\* Authorization { securityLevel, keyParameter }.
Authorization(l, kp) == [securityLevel |-> l, keyParameter |-> kp]

NoAuth == Authorization(NoData, NoKm)

\* No thread has made a call.
NoCalls == <<>>

Inputs ==
    {[kind |-> "value", tag |-> NoTag, value |-> x, prim |-> NoData,
      cell |-> NoCell, wire |-> NoKm] : x \in KeyParameterValues}
    \cup {[kind |-> "wire", tag |-> NoTag, value |-> NoValue, prim |-> NoData,
           cell |-> NoCell, wire |-> kp] : kp \in KmKeyParameters}
    \cup {[kind |-> "sql", tag |-> t, value |-> NoValue, prim |-> NoData,
           cell |-> c, wire |-> NoKm] : t \in Tags, c \in SqlCells}
    \cup {[kind |-> "primitive", tag |-> t, value |-> NoValue, prim |-> v,
           cell |-> NoCell, wire |-> NoKm] : t \in Tags, v \in PrimitiveArgs}

(***************************************************************************)
(* The state machine: one input is drawn, then operations are applied to   *)
(* what is at hand.  tag, value, prim, cell and wire hold the latest datum *)
(* of each representation, result the return value of the latest fallible  *)
(* operation, ops the operations applied so far.                           *)
(***************************************************************************)
Init ==
    /\ input \in Inputs
    /\ tag = input.tag
    /\ value = input.value
    /\ prim = input.prim
    /\ cell = input.cell
    /\ wire = input.wire
    /\ result = NoResult
    /\ ops = <<>>
    /\ param = NoParam
    /\ level = NoData
    /\ auth = NoAuth
    /\ payload = NoData
    /\ ptype = ""
    /\ shared = NoParam
    /\ calls = NoCalls

\* value.get_tag()
GetTag ==
    /\ Len(ops) < MaxOps
    /\ value # NoValue
    /\ tag' = get_tag(value)
    /\ ops' = Append(ops, "get_tag")
    /\ UNCHANGED <<input, value, prim, cell, wire, result>>
    /\ UNCHANGED <<kpvars, erasurevars, concvars>>

\* The payload's to_primitive(), as serialize_primitive takes it.
ToPrimitive ==
    /\ Len(ops) < MaxOps
    /\ value # NoValue
    /\ value.v # Unit
    /\ prim' = to_primitive(value.v)
    /\ ops' = Append(ops, "to_primitive")
    /\ UNCHANGED <<input, tag, value, cell, wire, result>>
    /\ UNCHANGED <<kpvars, erasurevars, concvars>>

\* KeyParameterValue::new_from_tag_primitive_pair(tag, prim)
NewFromTagPrimitivePair ==
    /\ Len(ops) < MaxOps
    /\ tag # NoTag
    /\ prim # NoData
    /\ result' = new_from_tag_primitive_pair(tag, prim)
    /\ value' = IF result'.ok THEN result'.val ELSE value
    /\ ops' = Append(ops, "new_from_tag_primitive_pair")
    /\ UNCHANGED <<input, tag, prim, cell, wire>>
    /\ UNCHANGED <<kpvars, erasurevars, concvars>>

\* value.to_sql()
ToSql ==
    /\ Len(ops) < MaxOps
    /\ value # NoValue
    /\ result' = to_sql(value)
    /\ cell' = IF result'.ok THEN result'.val ELSE cell
    /\ ops' = Append(ops, "to_sql")
    /\ UNCHANGED <<input, tag, value, prim, wire>>
    /\ UNCHANGED <<kpvars, erasurevars, concvars>>

\* KeyParameterValue::new_from_sql(tag, &cell)
NewFromSql ==
    /\ Len(ops) < MaxOps
    /\ tag # NoTag
    /\ cell # NoCell
    /\ result' = new_from_sql(tag, cell)
    /\ value' = IF result'.ok THEN result'.val ELSE value
    /\ ops' = Append(ops, "new_from_sql")
    /\ UNCHANGED <<input, tag, prim, cell, wire>>
    /\ UNCHANGED <<kpvars, erasurevars, concvars>>

\* KmKeyParameter::from(value)
IntoKm ==
    /\ Len(ops) < MaxOps
    /\ value # NoValue
    /\ wire' = into_km(value)
    /\ ops' = Append(ops, "into_km")
    /\ UNCHANGED <<input, tag, value, prim, cell, result>>
    /\ UNCHANGED <<kpvars, erasurevars, concvars>>

\* KeyParameterValue::from(wire)
FromKm ==
    /\ Len(ops) < MaxOps
    /\ wire # NoKm
    /\ value' = from_km(wire)
    /\ ops' = Append(ops, "from_km")
    /\ UNCHANGED <<input, tag, prim, cell, wire, result>>
    /\ UNCHANGED <<kpvars, erasurevars, concvars>>

Next ==
    \/ GetTag
    \/ ToPrimitive
    \/ NewFromTagPrimitivePair
    \/ ToSql
    \/ NewFromSql
    \/ IntoKm
    \/ FromKm

Spec == Init /\ [][Next]_vars

(***************************************************************************)
(* KeyParameter: a KeyParameterValue with the security level enforcing it. *)
(***************************************************************************)
\* Values of the AIDL enum SecurityLevel that inputs are drawn from.
SecurityLevels == {[ty |-> "SecurityLevel", d |-> <<n>>] : n \in {0, 1, 100}}

\* KeyParameter::new
KeyParameter_new(v, l) == KeyParameter(v, l)

\* Faulty variant: the error of the value-level read is swallowed and the
\* parameter is built around Invalid.
KeyParameter_new_from_sql_Swallow(tag_val, data, security_level_val) ==
    LET r == new_from_sql(tag_val, data) IN
    IF r.ok THEN Ok(KeyParameter(r.val, security_level_val))
    ELSE Ok(KeyParameter(Invalid, security_level_val))

\* KeyParameter::new_from_sql: the value-level read, its error propagated by `?`.
KeyParameter_new_from_sql(tag_val, data, security_level_val) ==
    LET r == new_from_sql(tag_val, data) IN
    IF r.ok THEN Ok(KeyParameter(r.val, security_level_val))
    ELSE Err(r.err, NoParam)

\* KeyParameter::get_tag
KeyParameter_get_tag(p) == get_tag(p.value)

\* KeyParameter::key_parameter_value
key_parameter_value(p) == p.value

\* KeyParameter::security_level
security_level(p) == p.security_level

\* Faulty variant: the authorization is built with the default security
\* level, SecurityLevel(0).
into_authorization_DefaultLevel(p) ==
    Authorization([ty |-> "SecurityLevel", d |-> <<0>>], into_km(p.value))

\* KeyParameter::into_authorization
into_authorization(p) == Authorization(p.security_level, into_km(p.value))

\* Arguments of the KeyParameter constructors: a value or a tag and a cell,
\* and the security level.
KpInputs ==
    {[kind |-> "value", tag |-> NoTag, value |-> x, prim |-> NoData,
      cell |-> NoCell, wire |-> NoKm, security_level |-> l] :
        x \in KeyParameterValues, l \in SecurityLevels}
    \cup {[kind |-> "sql", tag |-> t, value |-> NoValue, prim |-> NoData,
           cell |-> c, wire |-> NoKm, security_level |-> l] :
             t \in Tags, c \in SqlCells, l \in SecurityLevels}

KpInit ==
    /\ input \in KpInputs
    /\ tag = input.tag
    /\ value = input.value
    /\ prim = input.prim
    /\ cell = input.cell
    /\ wire = input.wire
    /\ result = NoResult
    /\ ops = <<>>
    /\ param = NoParam
    /\ level = input.security_level
    /\ auth = NoAuth
    /\ payload = NoData
    /\ ptype = ""
    /\ shared = NoParam
    /\ calls = NoCalls

\* KeyParameter::new(value, level)
KpNew ==
    /\ Len(ops) < MaxOps
    /\ value # NoValue
    /\ param' = KeyParameter_new(value, level)
    /\ ops' = Append(ops, "KeyParameter::new")
    /\ UNCHANGED <<input, tag, value, prim, cell, wire, result, level, auth>>
    /\ UNCHANGED <<erasurevars, concvars>>

\* KeyParameter::new_from_sql(tag, &cell, level)
KpNewFromSql ==
    /\ Len(ops) < MaxOps
    /\ tag # NoTag
    /\ cell # NoCell
    /\ result' = KeyParameter_new_from_sql(tag, cell, level)
    /\ param' = IF result'.ok THEN result'.val ELSE param
    /\ ops' = Append(ops, "KeyParameter::new_from_sql")
    /\ UNCHANGED <<input, tag, value, prim, cell, wire, level, auth>>
    /\ UNCHANGED <<erasurevars, concvars>>

\* param.get_tag()
KpGetTag ==
    /\ Len(ops) < MaxOps
    /\ param # NoParam
    /\ tag' = KeyParameter_get_tag(param)
    /\ ops' = Append(ops, "KeyParameter::get_tag")
    /\ UNCHANGED <<input, value, prim, cell, wire, result, kpvars>>
    /\ UNCHANGED <<erasurevars, concvars>>

\* param.key_parameter_value()
KpKeyParameterValue ==
    /\ Len(ops) < MaxOps
    /\ param # NoParam
    /\ value' = key_parameter_value(param)
    /\ ops' = Append(ops, "key_parameter_value")
    /\ UNCHANGED <<input, tag, prim, cell, wire, result, kpvars>>
    /\ UNCHANGED <<erasurevars, concvars>>

\* param.security_level()
KpSecurityLevel ==
    /\ Len(ops) < MaxOps
    /\ param # NoParam
    /\ level' = security_level(param)
    /\ ops' = Append(ops, "security_level")
    /\ UNCHANGED <<input, tag, value, prim, cell, wire, result, param, auth>>
    /\ UNCHANGED <<erasurevars, concvars>>

\* param.into_authorization(), which consumes the parameter.
KpIntoAuthorization ==
    /\ Len(ops) < MaxOps
    /\ param # NoParam
    /\ auth' = into_authorization(param)
    /\ param' = NoParam
    /\ ops' = Append(ops, "into_authorization")
    /\ UNCHANGED <<input, tag, value, prim, cell, wire, result, level>>
    /\ UNCHANGED <<erasurevars, concvars>>

KpNext ==
    \/ KpNew
    \/ KpNewFromSql
    \/ KpGetTag
    \/ KpKeyParameterValue
    \/ KpSecurityLevel
    \/ KpIntoAuthorization

KpSpec == KpInit /\ [][KpNext]_vars

(***************************************************************************)
(* The primitive erasure layer: a payload of type ptype is erased to a     *)
(* Primitive by serialize_primitive and projected back by                  *)
(* deserialize_primitive.                                                  *)
(***************************************************************************)
PayloadTypes == (AidlEnumTypes \cup IdentityTypes)

\* serialize_primitive: the Primitive handed to the serializer.
serialize_primitive(v) == PrimitiveFrom(to_primitive(v))

\* serde::de::Error::custom("Type Mismatch")
SerdeTypeMismatch == [code |-> "Type Mismatch", context |-> <<>>]

\* deserialize_primitive::<T>: primitive.try_into() and T::from_primitive.
deserialize_primitive(T, primitive) ==
    LET c == TryFromPrimitive(AssociatedPrimitive(T), primitive) IN
    IF c.ok THEN Ok(from_primitive(T, c.val))
    ELSE Err(SerdeTypeMismatch, NoData)

\* A payload of some type, or a Primitive and the type to project it into.
ErasureInputs ==
    UNION {{[kind |-> "payload", tag |-> NoTag, value |-> NoValue, prim |-> NoData,
             cell |-> NoCell, wire |-> NoKm, payload |-> x, ptype |-> T] :
               x \in DataOfType(T)} : T \in PayloadTypes}
    \cup {[kind |-> "primitive", tag |-> NoTag, value |-> NoValue,
           prim |-> PrimitiveFrom(x), cell |-> NoCell, wire |-> NoKm,
           payload |-> NoData, ptype |-> T] :
             x \in PrimitiveArgs, T \in PayloadTypes}

ErasureInit ==
    /\ input \in ErasureInputs
    /\ tag = input.tag
    /\ value = input.value
    /\ prim = input.prim
    /\ cell = input.cell
    /\ wire = input.wire
    /\ result = NoResult
    /\ ops = <<>>
    /\ param = NoParam
    /\ level = NoData
    /\ auth = NoAuth
    /\ payload = input.payload
    /\ ptype = input.ptype
    /\ shared = NoParam
    /\ calls = NoCalls

\* serialize_primitive(&payload, serializer)
SerializePrimitive ==
    /\ Len(ops) < MaxOps
    /\ payload # NoData
    /\ prim' = serialize_primitive(payload)
    /\ ops' = Append(ops, "serialize_primitive")
    /\ UNCHANGED <<input, tag, value, cell, wire, result, kpvars, erasurevars, concvars>>

\* primitive.try_into() for the primitive type associated with ptype
TryInto ==
    /\ Len(ops) < MaxOps
    /\ prim # NoData
    /\ result' = TryFromPrimitive(AssociatedPrimitive(ptype), prim)
    /\ ops' = Append(ops, "try_into")
    /\ UNCHANGED <<input, tag, value, prim, cell, wire, kpvars, erasurevars, concvars>>

\* deserialize_primitive::<ptype>(deserializer)
DeserializePrimitive ==
    /\ Len(ops) < MaxOps
    /\ prim # NoData
    /\ result' = deserialize_primitive(ptype, prim)
    /\ payload' = IF result'.ok THEN result'.val ELSE payload
    /\ ops' = Append(ops, "deserialize_primitive")
    /\ UNCHANGED <<input, tag, value, prim, cell, wire, kpvars, ptype, concvars>>

ErasureNext ==
    \/ SerializePrimitive
    \/ TryInto
    \/ DeserializePrimitive

ErasureSpec == ErasureInit /\ [][ErasureNext]_vars

(***************************************************************************)
(* Concurrent use: threads call the conversions on one KeyParameter they   *)
(* all hold a reference to.  A call begins (its arguments are taken) and   *)
(* ends (its body runs and it returns) in two steps, so that calls of      *)
(* different threads overlap in every order.                               *)
(***************************************************************************)
Threads == {1, 2}

\* The methods taking &self, and into_authorization, which consumes a clone.
BorrowingCalls == {"KeyParameter::get_tag", "key_parameter_value", "security_level", "to_sql"}

ConcurrentCalls == BorrowingCalls \cup {"into_authorization"}

NoReturn ==
    [tag |-> NoTag, value |-> NoValue, level |-> NoData, sql |-> NoResult, auth |-> NoAuth]

IdleCall == [pc |-> "idle", op |-> "", arg |-> NoParam, ret |-> NoReturn]

\* What a call returns, from its own argument and the object it borrows.
Invoke(op, arg, obj) ==
    CASE op = "KeyParameter::get_tag" -> [NoReturn EXCEPT !.tag = KeyParameter_get_tag(obj)]
      [] op = "key_parameter_value" -> [NoReturn EXCEPT !.value = key_parameter_value(obj)]
      [] op = "security_level" -> [NoReturn EXCEPT !.level = security_level(obj)]
      [] op = "to_sql" -> [NoReturn EXCEPT !.sql = to_sql(key_parameter_value(obj))]
      [] op = "into_authorization" -> [NoReturn EXCEPT !.auth = into_authorization(arg)]

\* Faulty variant: key_parameter_value moves the value out of the object
\* and leaves Invalid behind.
AfterCall_Take(op, obj) ==
    IF op = "key_parameter_value" THEN KeyParameter(Invalid, obj.security_level)
    ELSE obj

\* The borrowed object after a call: the bodies only read through &self.
AfterCall(op, obj) == obj

ConcInputs ==
    {[kind |-> "shared", tag |-> NoTag, value |-> NoValue, prim |-> NoData,
      cell |-> NoCell, wire |-> NoKm, shared |-> KeyParameter_new(x, l)] :
        x \in KeyParameterValues, l \in SecurityLevels}

ConcInit ==
    /\ input \in ConcInputs
    /\ tag = input.tag
    /\ value = input.value
    /\ prim = input.prim
    /\ cell = input.cell
    /\ wire = input.wire
    /\ result = NoResult
    /\ ops = <<>>
    /\ param = NoParam
    /\ level = NoData
    /\ auth = NoAuth
    /\ payload = NoData
    /\ ptype = ""
    /\ shared = input.shared
    /\ calls = [t \in Threads |-> IdleCall]

\* Thread t enters a method of the shared object.
BeginBorrow(t) ==
    /\ calls[t].pc # "called"
    /\ \E op \in BorrowingCalls :
         calls' = [calls EXCEPT ![t] = [pc |-> "called", op |-> op,
                                        arg |-> NoParam, ret |-> NoReturn]]
    /\ UNCHANGED <<input, tag, value, prim, cell, wire, result, ops, kpvars,
                   erasurevars, shared>>

\* Thread t clones the shared object to pass the clone to into_authorization.
BeginConsume(t) ==
    /\ calls[t].pc # "called"
    /\ calls' = [calls EXCEPT ![t] = [pc |-> "called", op |-> "into_authorization",
                                      arg |-> shared, ret |-> NoReturn]]
    /\ UNCHANGED <<input, tag, value, prim, cell, wire, result, ops, kpvars,
                   erasurevars, shared>>

\* The body of thread t's call runs and the call returns.
Return(t) ==
    /\ calls[t].pc = "called"
    /\ calls' = [calls EXCEPT ![t].pc = "returned",
                              ![t].ret = Invoke(calls[t].op, calls[t].arg, shared)]
    /\ shared' = IF calls[t].op \in BorrowingCalls THEN AfterCall(calls[t].op, shared)
                 ELSE shared
    /\ UNCHANGED <<input, tag, value, prim, cell, wire, result, ops, kpvars,
                   erasurevars>>

ConcNext ==
    \E t \in Threads :
        \/ BeginBorrow(t)
        \/ BeginConsume(t)
        \/ Return(t)

ConcSpec == ConcInit /\ [][ConcNext]_vars

(***************************************************************************)
(* Vocabulary of the properties.                                           *)
(***************************************************************************)
LastOp == IF ops = <<>> THEN "" ELSE ops[Len(ops)]

\* Rows of the list for a tag, looked up in the list as a set.
DeclaredRows(t) == {r \in Rows : r.tag = t}

\* The payload class of a row is its wire field; classes without payload.
FlagClassFields == {"BoolValue", "Invalid"}

\* The Primitive case that a payload class is exchanged as ("" for none).
PrimitiveCaseOfClass(f) ==
    CASE f \in FlagClassFields -> ""
      [] f \in {"LongInteger", "DateTime"} -> "I64"
      [] f = "Blob" -> "Vec"
      [] OTHER -> "I32"

\* C1: for every variant v that wraps a payload, handing the payload's
\* to_primitive() and v's tag to new_from_tag_primitive_pair returns Ok(v).
PrimitiveRoundTrip ==
    (/\ input.kind = "value"
     /\ input.value.v # Unit
     /\ ops \in {<<"get_tag", "to_primitive", "new_from_tag_primitive_pair">>,
                 <<"to_primitive", "get_tag", "new_from_tag_primitive_pair">>})
    => (/\ result = Ok(input.value)
        /\ \A r \in DeclaredRows(tag) : result.val = Variant(r.vname, input.value.v))

PrimitiveRoundTripWitness ==
    /\ input.kind = "value"
    /\ input.value = Variant("Algorithm", [ty |-> "Algorithm", d |-> <<2048>>])
    /\ ops = <<"get_tag", "to_primitive", "new_from_tag_primitive_pair">>
    /\ tag = "ALGORITHM"
    /\ result = Ok(input.value)

\* C2: converting any KeyParameterValue to a KmKeyParameter and that
\* record back yields the value that was converted.
WireRoundTrip ==
    (input.kind = "value" /\ ops = <<"into_km", "from_km">>)
    => value = input.value

WireRoundTripWitness ==
    /\ input.kind = "value"
    /\ input.value = Variant("KeySize", I32(2048))
    /\ ops = <<"into_km", "from_km">>
    /\ wire = KmKeyParameter("KEY_SIZE", KmKeyParameterValue("Integer", I32(2048)))
    /\ value = Variant("KeySize", I32(2048))

\* C3: writing any KeyParameterValue v with to_sql and reading the cell
\* back with new_from_sql(v.get_tag(), cell) returns Ok(v).
SqlRoundTripValueFirst ==
    (/\ input.kind = "value"
     /\ ops \in {<<"get_tag", "to_sql", "new_from_sql">>,
                 <<"to_sql", "get_tag", "new_from_sql">>})
    => result = Ok(input.value)

SqlRoundTripValueFirstWitness ==
    /\ input.kind = "value"
    /\ input.value = Variant("ApplicationID", VecU8(<<1, 2>>))
    /\ ops = <<"to_sql", "get_tag", "new_from_sql">>
    /\ cell = [kind |-> "Blob", v |-> VecU8(<<1, 2>>)]
    /\ result.ok
    /\ result.val.v.d = <<1, 2>>

\* Is the cell one that to_sql can produce for the payload class: NULL for a
\* class without payload, an integer within i32 for Integer and the enum
\* classes, an integer for LongInteger and DateTime, bytes for Blob.
CellOfClass(f, c) ==
    CASE PrimitiveCaseOfClass(f) = "" -> c = Null
      [] PrimitiveCaseOfClass(f) = "I32" -> c.kind = "Integer" /\ FitsI32(c.v)
      [] PrimitiveCaseOfClass(f) = "I64" -> c.kind = "Integer"
      [] PrimitiveCaseOfClass(f) = "Vec" -> c.kind = "Blob"

\* C4 as stated: for every tag and every cell that new_from_sql accepts,
\* new_from_sql followed by to_sql reproduces the cell.
SqlRoundTripCellFirstAnyAcceptedCell ==
    (/\ input.kind = "sql"
     /\ ops = <<"new_from_sql", "to_sql">>
     /\ new_from_sql(input.tag, input.cell).ok)
    => cell = input.cell

\* C4 amended: for every tag and every cell that new_from_sql reads in full
\* (a cell of the declared class for a tag of the list, NULL for a tag
\* without entry), new_from_sql followed by to_sql reproduces the cell.
SqlRoundTripCellFirst ==
    (/\ input.kind = "sql"
     /\ ops = <<"new_from_sql", "to_sql">>
     /\ \/ \E r \in DeclaredRows(input.tag) : CellOfClass(r.field, input.cell)
        \/ input.tag \notin TableTags /\ input.cell = Null)
    => (/\ value # NoValue
        /\ result = Ok(input.cell)
        /\ cell = input.cell)

SqlRoundTripCellFirstWitness ==
    /\ input.kind = "sql"
    /\ input.tag = "KEY_SIZE"
    /\ input.cell = [kind |-> "Integer", v |-> I64(0, 2048)]
    /\ ops = <<"new_from_sql", "to_sql">>
    /\ value = Variant("KeySize", I32(2048))
    /\ cell = input.cell

\* C5: from(KmKeyParameter) never fails; a record whose (tag, field) is the
\* pairing the list declares becomes that tag's variant, carrying the wire
\* payload unchanged where the variant wraps one; any other record becomes
\* Invalid.
FromKmDegrades ==
    LastOp = "from_km"
    => /\ value.vname \in VariantNames
       /\ \A r \in DeclaredRows(wire.tag) :
            r.field = wire.value.field
            => /\ value.vname = r.vname
               /\ r.field \notin FlagClassFields => value.v = wire.value.v
               /\ r.field \in FlagClassFields => value.v = Unit
       /\ (\A r \in DeclaredRows(wire.tag) : r.field # wire.value.field)
            => value = Invalid

FromKmDegradesWitness ==
    /\ ops = <<"from_km">>
    /\ wire = KmKeyParameter("ACTIVE_DATETIME", KmKeyParameterValue("LongInteger", I64(0, 2048)))
    /\ value = Invalid

\* C6: for a tag without entry in the list, new_from_sql returns Ok(Invalid)
\* whatever the cell holds, and new_from_tag_primitive_pair returns
\* Err(UnknownTag) whatever the primitive is.
UnknownTagAsymmetry ==
    tag \notin TableTags
    => /\ LastOp = "new_from_sql" => result = Ok(Invalid) /\ value = Invalid
       /\ LastOp = "new_from_tag_primitive_pair"
            => /\ ~result.ok
               /\ result.err = UnknownTag
               /\ result.val = NoValue

UnknownTagAsymmetryWitness ==
    /\ tag = "STORAGE_KEY"
    /\ \/ /\ ops = <<"new_from_sql">>
          /\ cell = [kind |-> "Blob", v |-> VecU8(<<1, 2>>)]
          /\ result = Ok(Invalid)
       \/ /\ ops = <<"new_from_tag_primitive_pair">>
          /\ result.err = UnknownTag

\* C7 as stated: for every tag of the list, flag-class tags and INVALID
\* included, a primitive of another shape than the declared payload class
\* is refused with TypeMismatch.  A class without payload has no shape, so
\* every primitive disagrees with it.
TypeMismatchForEveryTableTag ==
    (/\ LastOp = "new_from_tag_primitive_pair"
     /\ \E r \in DeclaredRows(tag) :
            PrimitiveFrom(prim).case # PrimitiveCaseOfClass(r.field))
    => (/\ ~result.ok
        /\ result.err = TypeMismatch
        /\ result.val = NoValue)

\* C7 amended: for every payload-carrying tag of the list, a primitive of
\* another shape than the declared payload class is refused with
\* TypeMismatch and no value is produced.
TypeMismatchForPayloadTags ==
    (/\ LastOp = "new_from_tag_primitive_pair"
     /\ \E r \in DeclaredRows(tag) :
            /\ r.field \notin FlagClassFields
            /\ PrimitiveFrom(prim).case # PrimitiveCaseOfClass(r.field))
    => (/\ ~result.ok
        /\ result.err = TypeMismatch
        /\ result.val = NoValue)

TypeMismatchForPayloadTagsWitness ==
    /\ input.kind = "primitive"
    /\ ops = <<"new_from_tag_primitive_pair">>
    /\ tag = "KEY_SIZE"
    /\ prim = I64(0, 2048)
    /\ result = Err(TypeMismatch, NoValue)
    /\ value = NoValue

\* Can the cell be decoded as the primitive type of the payload class ?
Decodable(f, c) == SqlFieldGet(AssociatedPrimitive(KmFieldType(f)), c).ok

\* C8: for a payload-carrying tag of the list and a cell that cannot be
\* decoded as the tag's primitive type, new_from_sql fails with
\* VALUE_CORRUPTED, the tag's name in the context, and returns no value.
ValueCorruptedOnUndecodableCell ==
    (/\ LastOp = "new_from_sql"
     /\ \E r \in DeclaredRows(tag) :
            r.field \notin FlagClassFields /\ ~Decodable(r.field, cell))
    => (/\ ~result.ok
        /\ result.err.code = "VALUE_CORRUPTED"
        /\ \E i \in 1..Len(result.err.context) : result.err.context[i] = tag
        /\ result.val = NoValue)

ValueCorruptedOnUndecodableCellWitness ==
    /\ input.kind = "sql"
    /\ ops = <<"new_from_sql">>
    /\ tag = "ALGORITHM"
    /\ cell = Null
    /\ result.err = ValueCorrupted("ALGORITHM")
    /\ value = NoValue

\* The variants the flag defaulting names.
FlagVariantNames ==
    {"CallerNonce", "IncludeUniqueID", "BootLoaderOnly", "RollbackResistance",
     "EarlyBootOnly", "NoAuthRequired", "AllowWhileOnBody",
     "TrustedUserPresenceRequired", "TrustedConfirmationRequired",
     "UnlockedDeviceRequired", "ResetSinceIdRotation"}

\* C9: the wire record of every flag variant has the value BoolValue(true),
\* the wire record of Invalid is {INVALID, Invalid(0)}, and the flag
\* variants are exactly the variants without payload other than Invalid.
FlagDefaulting ==
    LastOp = "into_km"
    => /\ value.vname \in FlagVariantNames
            => wire.value = KmKeyParameterValue("BoolValue", Bool(TRUE))
       /\ value = Invalid
            => wire = KmKeyParameter("INVALID", KmKeyParameterValue("Invalid", I32(0)))
       /\ value.v = Unit <=> value.vname \in FlagVariantNames \cup {"Invalid"}

FlagDefaultingWitness ==
    /\ ops = <<"into_km">>
    /\ value = Variant("ResetSinceIdRotation", Unit)
    /\ wire = KmKeyParameter("RESET_SINCE_ID_ROTATION",
                             KmKeyParameterValue("BoolValue", Bool(TRUE)))

\* C10: the wire field of a variant is the field declared for its tag and
\* wraps a datum of that field's type; the cell written by to_sql is NULL
\* for the classes without payload, an integer within i32 for Integer and
\* the enum classes, an integer for LongInteger and DateTime, bytes for
\* Blob, and holds the payload unchanged.
ClassFidelity ==
    /\ LastOp = "into_km"
         => \A r \in DeclaredRows(get_tag(value)) :
              /\ wire.tag = r.tag
              /\ wire.value.field = r.field
              /\ wire.value.v.ty = KmFieldType(r.field)
              /\ r.field \notin FlagClassFields => wire.value.v = value.v
    /\ LastOp = "to_sql"
         => \A r \in DeclaredRows(get_tag(value)) :
              /\ result.ok
              /\ CellOfClass(r.field, cell)
              /\ PrimitiveCaseOfClass(r.field) = "I32"
                   => I32FromI64(cell.v).d = value.v.d
              /\ PrimitiveCaseOfClass(r.field) \in {"I64", "Vec"}
                   => cell.v = value.v

ClassFidelityWitness ==
    /\ ops = <<"into_km", "to_sql">>
    /\ value = Variant("KeyOrigin", [ty |-> "KeyOrigin", d |-> <<-1>>])
    /\ wire = KmKeyParameter("ORIGIN", KmKeyParameterValue("Origin", value.v))
    /\ cell = [kind |-> "Integer", v |-> I64(-1, I32Max)]

\* Rows of the list that declare a variant.
RowsOfVariant(n) == {r \in Rows : r.vname = n}

\* C11 as stated: every Tag is mapped, i.e. every tag handed to an
\* operation appears in exactly one variant, and every variant has
\* exactly one tag.
TagVariantBijection ==
    /\ LastOp \in {"new_from_sql", "new_from_tag_primitive_pair"}
         => Cardinality(DeclaredRows(tag)) = 1
    /\ LastOp = "get_tag" => Cardinality(RowsOfVariant(value.vname)) = 1

\* C11 amended: the association is a bijection between the variants and
\* the tags of the list: every variant has exactly one tag, every tag of
\* the list exactly one variant, and the operations built from a tag of
\* the list return that variant; tags outside the list exist.
TableTagVariantBijection ==
    /\ Cardinality(TableTags) = Len(Table)
    /\ Cardinality(VariantNames) = Len(Table)
    /\ LastOp = "get_tag"
         => /\ Cardinality(RowsOfVariant(value.vname)) = 1
            /\ DeclaredRows(tag) = RowsOfVariant(value.vname)
    /\ (LastOp \in {"new_from_sql", "new_from_tag_primitive_pair"}
        /\ tag \in TableTags /\ result.ok)
         => /\ Cardinality(DeclaredRows(tag)) = 1
            /\ RowsOfVariant(result.val.vname) = DeclaredRows(tag)

TableTagVariantBijectionWitness ==
    /\ input.kind = "value"
    /\ ops = <<"get_tag">>
    /\ value = Variant("RsaOaepMgfDigest", [ty |-> "Digest", d |-> <<0>>])
    /\ tag = "RSA_OAEP_MGF_DIGEST"

\* Does the record carry the field the list declares for its tag ?
ExactlyPaired(kp) == \E r \in DeclaredRows(kp.tag) : r.field = kp.value.field

\* C12: get_tag returns the one tag the list declares for the variant; the
\* wire record of a value carries that tag; a value built from a tag of
\* the list by new_from_sql, by new_from_tag_primitive_pair or from an
\* exactly paired wire record has that tag.
GetTagAgrees ==
    /\ LastOp = "get_tag"
         => /\ tag \in TableTags
            /\ \A r \in RowsOfVariant(value.vname) : r.tag = tag
    /\ (Len(ops) >= 2 /\ SubSeq(ops, Len(ops) - 1, Len(ops)) = <<"into_km", "get_tag">>)
         => wire.tag = tag
    /\ (input.kind = "sql" /\ input.tag \in TableTags
        /\ ops = <<"new_from_sql", "get_tag">>)
         => tag = input.tag
    /\ (input.kind = "primitive" /\ input.tag \in TableTags
        /\ ops = <<"new_from_tag_primitive_pair", "get_tag">>)
         => tag = input.tag
    /\ (input.kind = "wire" /\ ExactlyPaired(input.wire)
        /\ ops = <<"from_km", "get_tag">>)
         => tag = input.wire.tag

GetTagAgreesWitness ==
    /\ input.kind = "value"
    /\ ops = <<"into_km", "get_tag">>
    /\ value = Variant("CallerNonce", Unit)
    /\ wire.tag = "CALLER_NONCE"
    /\ tag = "CALLER_NONCE"

\* Rows of the list for a tag whose class has no payload.
FlagClassRows(t) == {r \in DeclaredRows(t) : r.field \in FlagClassFields}

\* C18: for a flag-class tag and for INVALID, new_from_tag_primitive_pair
\* returns Ok(the variant without payload) for a primitive of any shape.
FlagTagsIgnorePrimitive ==
    LastOp = "new_from_tag_primitive_pair"
    => \A r \in FlagClassRows(tag) :
         /\ result = Ok(Variant(r.vname, Unit))
         /\ value = Variant(r.vname, Unit)

FlagTagsIgnorePrimitiveWitness ==
    /\ input.kind = "primitive"
    /\ ops = <<"new_from_tag_primitive_pair">>
    /\ tag = "EARLY_BOOT_ONLY"
    /\ prim = VecU8(<<1, 2>>)
    /\ result = Ok(Variant("EarlyBootOnly", Unit))

\* C19: for a flag-class tag and for INVALID, new_from_sql returns Ok(the
\* variant without payload) whatever the cell holds, and to_sql of the
\* result writes NULL.
FlagTagsIgnoreCell ==
    /\ LastOp = "new_from_sql"
         => \A r \in FlagClassRows(tag) :
              /\ result = Ok(Variant(r.vname, Unit))
              /\ value = Variant(r.vname, Unit)
    /\ (input.kind = "sql" /\ FlagClassRows(input.tag) # {})
         => /\ ops = <<"new_from_sql">> => cell = input.cell
            /\ ops = <<"new_from_sql", "to_sql">> => cell = Null /\ result = Ok(Null)

FlagTagsIgnoreCellWitness ==
    /\ input.kind = "sql"
    /\ input.tag = "NO_AUTH_REQUIRED"
    /\ input.cell = [kind |-> "Blob", v |-> VecU8(<<1, 2>>)]
    /\ ops = <<"new_from_sql", "to_sql">>
    /\ value = Variant("NoAuthRequired", Unit)
    /\ cell = Null

\* C20: From<KmKeyParameter> ignores the payload of a flag record and of an
\* Invalid record, so converting the result back gives BoolValue(true) and
\* Invalid(0): a record with BoolValue(false) or Invalid(n), n # 0, is not
\* reproduced.
FromKmIgnoresFlagPayload ==
    (input.kind = "wire" /\ ExactlyPaired(input.wire))
    => \A r \in FlagClassRows(input.wire.tag) :
         /\ ops = <<"from_km">>
              => value = Variant(r.vname, Unit)
         /\ ops = <<"from_km", "into_km">>
              => /\ wire.tag = input.wire.tag
                 /\ wire.value = KmKeyParameterValue(r.field, KpDefault(KmFieldType(r.field)))
                 /\ r.field = "BoolValue" => wire.value.v = Bool(TRUE)
                 /\ r.field = "Invalid" => wire.value.v = I32(0)
                 /\ (wire = input.wire) <=> (input.wire.value.v \in {Bool(TRUE), I32(0)})

FromKmIgnoresFlagPayloadWitness ==
    /\ input.kind = "wire"
    /\ input.wire = KmKeyParameter("CALLER_NONCE", KmKeyParameterValue("BoolValue", Bool(FALSE)))
    /\ ops = <<"from_km", "into_km">>
    /\ value = Variant("CallerNonce", Unit)
    /\ wire = KmKeyParameter("CALLER_NONCE", KmKeyParameterValue("BoolValue", Bool(TRUE)))

\* C15: every operation returns: get_tag, the two wire conversions and
\* to_sql give a well-formed value (to_sql gives Ok), new_from_sql gives
\* a value or VALUE_CORRUPTED, new_from_tag_primitive_pair a value,
\* TypeMismatch or UnknownTag; nothing else comes out of a call.
NoOperationAborts ==
    /\ LastOp = "get_tag" => tag \in TableTags
    /\ LastOp = "into_km"
         => /\ wire.tag \in TableTags
            /\ wire.value.field \in KmFields
            /\ wire.value.v.ty = KmFieldType(wire.value.field)
    /\ LastOp = "from_km" => value.vname \in VariantNames
    /\ LastOp = "to_sql"
         => /\ result.ok
            /\ result.err = NoError
            /\ cell.kind \in {"Null", "Integer", "Blob"}
    /\ LastOp = "new_from_sql"
         => IF result.ok
            THEN result.err = NoError /\ result.val.vname \in VariantNames
            ELSE result.err.code = "VALUE_CORRUPTED" /\ result.val = NoValue
    /\ LastOp = "new_from_tag_primitive_pair"
         => IF result.ok
            THEN result.err = NoError /\ result.val.vname \in VariantNames
            ELSE result.err \in {TypeMismatch, UnknownTag} /\ result.val = NoValue

NoOperationAbortsWitness ==
    /\ input.kind = "sql"
    /\ ops = <<"new_from_sql">>
    /\ tag = "APPLICATION_ID"
    /\ cell = [kind |-> "Integer", v |-> I64(1, 0)]
    /\ ~result.ok
    /\ result.err.code = "VALUE_CORRUPTED"

\* C13: into_authorization of a KeyParameter returns the Authorization
\* whose securityLevel is the parameter's security level and whose
\* keyParameter is the wire record of its value, flags and Invalid included.
IntoAuthorizationKeepsLevel ==
    /\ (input.kind = "value" /\ ops = <<"KeyParameter::new", "into_authorization">>)
         => /\ auth.securityLevel = input.security_level
            /\ auth.keyParameter = into_km(input.value)
            /\ auth.keyParameter.tag = get_tag(input.value)
            /\ input.value.v # Unit => auth.keyParameter.value.v = input.value.v
            /\ param = NoParam
    /\ (input.kind = "sql"
        /\ ops = <<"KeyParameter::new_from_sql", "into_authorization">>)
         => /\ auth.securityLevel = input.security_level
            /\ auth.keyParameter = into_km(result.val.value)

IntoAuthorizationKeepsLevelWitness ==
    /\ input.kind = "value"
    /\ input.value = Invalid
    /\ input.security_level = [ty |-> "SecurityLevel", d |-> <<100>>]
    /\ ops = <<"KeyParameter::new", "into_authorization">>
    /\ auth = Authorization(input.security_level,
                            KmKeyParameter("INVALID", KmKeyParameterValue("Invalid", I32(0))))

\* C14: KeyParameter::new_from_sql fails exactly when the value-level read
\* fails, with that error; otherwise it returns the value-level result
\* with the supplied security level; the two accessors return the fields.
KeyParameterNewFromSqlDelegates ==
    /\ LastOp = "KeyParameter::new_from_sql"
         => LET r == new_from_sql(tag, cell) IN
            /\ result.ok = r.ok
            /\ result.ok <=> \/ tag \notin TableTags
                             \/ FlagClassRows(tag) # {}
                             \/ \E w \in DeclaredRows(tag) : Decodable(w.field, cell)
            /\ ~r.ok => result.err = r.err /\ result.val = NoParam
            /\ r.ok => /\ result.val.value = r.val
                       /\ result.val.security_level = input.security_level
                       /\ param = result.val
    /\ LastOp = "key_parameter_value" => value = param.value
    /\ LastOp = "security_level" => level = param.security_level
    /\ (input.kind = "value" /\ Len(ops) = 2 /\ ops[1] = "KeyParameter::new")
         => /\ ops[2] = "key_parameter_value" => value = input.value
            /\ ops[2] = "security_level" => level = input.security_level

KeyParameterNewFromSqlDelegatesWitness ==
    /\ input.kind = "sql"
    /\ ops = <<"KeyParameter::new_from_sql", "security_level">>
    /\ tag = "KEY_SIZE"
    /\ cell = [kind |-> "Integer", v |-> I64(0, 2048)]
    /\ param = KeyParameter(Variant("KeySize", I32(2048)), input.security_level)
    /\ level = [ty |-> "SecurityLevel", d |-> <<1>>]

\* The one Primitive case a payload type is erased to.
PrimitiveCaseOfType(T) ==
    CASE T = "i64" -> "I64"
      [] T = "Vec<u8>" -> "Vec"
      [] OTHER -> "I32"

\* C17: a payload is erased to the one Primitive case of its type with its
\* content unchanged, projecting the erased payload back returns the
\* payload, and projecting a Primitive of another case fails with
\* TypeMismatch.
PrimitiveErasureLossless ==
    /\ LastOp = "serialize_primitive"
         => /\ prim.case = PrimitiveCaseOfType(ptype)
            /\ prim.v.d = payload.d
    /\ (input.kind = "payload"
        /\ ops = <<"serialize_primitive", "deserialize_primitive">>)
         => /\ result = Ok(input.payload)
            /\ payload = input.payload
    /\ LastOp = "try_into"
         => IF prim.case = PrimitiveCaseOfType(ptype)
            THEN result = Ok(prim.v)
            ELSE result = Err(TypeMismatch, Unit)
    /\ LastOp = "deserialize_primitive"
         => (result.ok <=> prim.case = PrimitiveCaseOfType(ptype))

PrimitiveErasureLosslessWitness ==
    /\ input.kind = "payload"
    /\ input.payload = [ty |-> "EcCurve", d |-> <<-1>>]
    /\ ops = <<"serialize_primitive", "deserialize_primitive">>
    /\ prim = [case |-> "I32", v |-> I32(-1)]
    /\ result = Ok(input.payload)

\* The result of a call made alone on the object as it was constructed.
RunAlone(op) == Invoke(op, input.shared, input.shared)

EnumClassTags ==
    {"PURPOSE", "ALGORITHM", "BLOCK_MODE", "DIGEST", "RSA_OAEP_MGF_DIGEST",
     "PADDING", "EC_CURVE", "USER_AUTH_TYPE", "ORIGIN"}

\* The rows of the list whose payload type is an AIDL enum.
EnumClassRows == {r \in Rows : r.vtype \in AidlEnumTypes}

\* The variant of row r wrapping the 32-bit integer n, with no check of n.
EnumVariant(r, n) == Variant(r.vname, [ty |-> r.vtype, d |-> <<n>>])

\* C21: the enum-class tags are PURPOSE .. ORIGIN, and for each of them and
\* every 32-bit integer n, new_from_sql on an integer cell holding n and
\* new_from_tag_primitive_pair on I32(n) succeed with the variant wrapping
\* n, and to_sql and the wire conversion of that variant emit n unchanged.
EnumPayloadsNotRangeChecked ==
    /\ {r.tag : r \in EnumClassRows} = EnumClassTags
    /\ (LastOp = "new_from_sql" /\ tag \in EnumClassTags
        /\ cell.kind = "Integer" /\ FitsI32(cell.v))
         => /\ result = Ok(EnumVariant(RowOfTag(tag), I32FromI64(cell.v).d[1]))
            /\ value = result.val
    /\ (LastOp = "new_from_tag_primitive_pair" /\ tag \in EnumClassTags
        /\ prim.ty = "i32")
         => /\ result = Ok(EnumVariant(RowOfTag(tag), prim.d[1]))
            /\ value = result.val
    /\ \A r \in EnumClassRows :
         (value.vname = r.vname /\ value.v.ty = r.vtype)
           => /\ LastOp = "to_sql"
                   => /\ result = Ok([kind |-> "Integer",
                                      v |-> I64FromI32(I32(value.v.d[1]))])
                      /\ cell = result.val
              /\ LastOp = "into_km"
                   => wire = KmKeyParameter(r.tag, KmKeyParameterValue(r.field, value.v))

EnumPayloadsNotRangeCheckedWitness ==
    /\ input.kind = "sql"
    /\ input.tag = "ALGORITHM"
    /\ input.cell = [kind |-> "Integer", v |-> I64FromI32(I32(I32Min))]
    /\ ops = <<"new_from_sql", "into_km", "to_sql">>
    /\ value = Variant("Algorithm", [ty |-> "Algorithm", d |-> <<I32Min>>])
    /\ wire.value.v.d = <<I32Min>>
    /\ cell = input.cell

====
